---- MODULE Spec2Model ----
(***************************************************************************)
(* A model of the english-quizes quiz application: the Streamlit web       *)
(* session of main.py and the command-line session of quiz_cli.py, over    *)
(* the question files that quiz_manager.py loads.                          *)
(*                                                                         *)
(* One run of the Streamlit script (one widget event and the reruns that   *)
(* st.rerun() chains to it) is one action of the web session; one input()  *)
(* read by the CLI together with the code up to the next input() is one    *)
(* action of the CLI session.                                              *)
(***************************************************************************)
EXTENDS Integers, Sequences, FiniteSets, TLC

(***************************************************************************)
(* Bounds of the model                                                     *)
(***************************************************************************)

\* The answer counter of a session is followed up to this value.
MaxAnswered == 4

\* Question.choices holds at most this many strings.
MaxChoices == 6

(***************************************************************************)
(* Strings: the conversions the code applies to topic names, file stems,   *)
(* difficulty levels and typed input, on the strings of this model.        *)
(***************************************************************************)

\* str.lower()
Lower(s) ==
    CASE s = "Grammar" -> "grammar"
      [] s = "Spelling" -> "spelling"
      [] s = "Vocabulary" -> "vocabulary"
      [] s = "Vocabulary Quiz" -> "vocabulary quiz"
      [] s = "Vocab" -> "vocab"
      [] s = "Empty" -> "empty"
      [] s = "Broken" -> "broken"
      [] s = "Short" -> "short"
      [] s = "Long" -> "long"
      [] s = "Negative" -> "negative"
      [] s = "Missing" -> "missing"
      [] s = "GRAMMAR" -> "grammar"
      [] s = "Easy" -> "easy"
      [] s = "EASY" -> "easy"
      [] s = "Q" -> "q"
      [] s = "N" -> "n"
      [] OTHER -> s

\* str.replace(' ', '_')
SpacesToUnderscores(s) ==
    CASE s = "vocabulary quiz" -> "vocabulary_quiz"
      [] OTHER -> s

\* str.replace('_', ' ').title()
StemToTopic(s) ==
    CASE s = "grammar" -> "Grammar"
      [] s = "spelling" -> "Spelling"
      [] s = "vocab" -> "Vocab"
      [] s = "empty" -> "Empty"
      [] s = "broken" -> "Broken"
      [] s = "short" -> "Short"
      [] s = "long" -> "Long"
      [] s = "negative" -> "Negative"
      [] OTHER -> s

(***************************************************************************)
(* Questions and the quizzes directory                                     *)
(***************************************************************************)

\* quiz_manager.Question, the fields the session reads.
Question(id, topic, difficulty, choices, correct_answer) ==
    [id |-> id, topic |-> topic, difficulty |-> difficulty,
     choices |-> choices, correct_answer |-> correct_answer]

G1 == Question(1, "Grammar", "easy", <<"is", "are">>, 1)
\* two equal choice strings, topic and difficulty in another letter case
G2 == Question(2, "grammar", "Easy", <<"their", "their", "there">>, 0)
\* the id of G1 again, in another topic file
S1 == Question(1, "Spelling", "hard", <<"recieve", "receive">>, 1)
V1 == Question(3, "Vocabulary", "medium", <<"big", "tiny">>, 0)

\* Records that are no valid Question: correct_answer at len(choices), fewer
\* than two choices, more than six choices, a negative correct_answer.
BadIndex == Question(4, "Broken", "easy", <<"a", "b">>, 2)
OneChoice == Question(5, "Short", "easy", <<"only">>, 0)
SevenChoices ==
    Question(6, "Long", "hard", <<"a", "b", "c", "d", "e", "f", "g">>, 0)
NegativeIndex == Question(7, "Negative", "medium", <<"a", "b">>, -1)

\* A *.yaml file: its stem, quiz_metadata.title, quiz_metadata.total_questions
\* and the records of its questions list.
QuizFile(stem, title, total_questions, questions) ==
    [stem |-> stem, title |-> title, total_questions |-> total_questions,
     questions |-> questions]

\* The *.yaml files of the quizzes directory, in the order glob lists them.
QuizFiles ==
    << QuizFile("grammar", "Grammar", 2, <<G1, G2>>),
       QuizFile("spelling", "Spelling", 1, <<S1>>),
       QuizFile("vocab", "Vocabulary Quiz", 1, <<V1>>),
       QuizFile("empty", "Empty", 0, << >>) >>

\* A quizzes directory in which four files hold a record that is no valid
\* Question; short.yaml holds a valid record before it, and the
\* total_questions of grammar.yaml is not the length of its list.
DamagedFiles ==
    << QuizFile("grammar", "Grammar", 5, <<G1, G2>>),
       QuizFile("spelling", "Spelling", 1, <<S1>>),
       QuizFile("broken", "Broken", 1, <<BadIndex>>),
       QuizFile("short", "Short", 2, <<V1, OneChoice>>),
       QuizFile("long", "Long", 1, <<SevenChoices>>),
       QuizFile("negative", "Negative", 1, <<NegativeIndex>>) >>

\* A question whose difficulty is none of easy, medium and hard: the field is
\* a str without a constraint.
X1 == Question(8, "Grammar", "expert", <<"go", "goes">>, 1)

\* A quizzes directory with a question of that difficulty.
LevelFiles ==
    << QuizFile("grammar", "Grammar", 2, <<G1, X1>>),
       QuizFile("spelling", "Spelling", 1, <<S1>>) >>

VARIABLE
    quizzes_dir              \* the files of QuizManager.quizzes_dir

FileIndexes == 1..Len(quizzes_dir)

\* Question(**q): the constraints of the fields choices and correct_answer.
QuestionFieldsValid(q) ==
    /\ 2 <= Len(q.choices)
    /\ Len(q.choices) <= MaxChoices
    /\ 0 <= q.correct_answer

\* validate_correct_answer that accepts every index.
validate_any_answer(q) == TRUE

\* Question.validate_correct_answer
validate_correct_answer(q) ==
    0 <= q.correct_answer /\ q.correct_answer < Len(q.choices)

\* Python's None for an optional string of the session state.
NoneStr == "None"

\* A Quiz (the topic names its title is joined from, its question list and
\* quiz_metadata.total_questions, which the loaders set to the length of the
\* list); is_none marks Python's None.
NoQuiz ==
    [is_none |-> TRUE, title |-> << >>, questions |-> << >>,
     total_questions |-> 0]

Quiz(title, questions) ==
    [is_none |-> FALSE, title |-> title, questions |-> questions,
     total_questions |-> Len(questions)]

\* The outcome of a call that may raise: ok with a value, or the exception.
Ok(v) == [ok |-> TRUE, value |-> v, error |-> ""]
Raise(e) == [ok |-> FALSE, value |-> << >>, error |-> e]

RECURSIVE ConcatReversed(_)
\* Concat with each list put in front of the ones before it.
ConcatReversed(lists) ==
    IF lists = << >> THEN << >>
    ELSE ConcatReversed(Tail(lists)) \o Head(lists)

RECURSIVE Concat(_)
\* list.extend over a sequence of lists
Concat(lists) ==
    IF lists = << >> THEN << >> ELSE Head(lists) \o Concat(Tail(lists))

\* The files whose name is <stem>.yaml.
FilesNamed(stem) == {i \in FileIndexes : quizzes_dir[i].stem = stem}

\* QuizManager.load_questions_by_topic
load_questions_by_topic(topic) ==
    LET filename == SpacesToUnderscores(Lower(topic))
        found == FilesNamed(filename)
    IN  IF found = {}
        THEN Raise("FileNotFoundError")
        ELSE LET questions == quizzes_dir[CHOOSE i \in found : TRUE].questions
             IN  IF \E k \in 1..Len(questions) :
                        ~QuestionFieldsValid(questions[k])
                 THEN Raise("ValidationError")
                 ELSE IF \E k \in 1..Len(questions) :
                        ~validate_correct_answer(questions[k])
                 THEN Raise("ValueError")
                 ELSE Ok(questions)

\* QuizManager.load_questions, topics a list of topic names: a topic without a
\* file is skipped, any other exception propagates.
load_questions(topics) ==
    LET loaded == [k \in 1..Len(topics) |-> load_questions_by_topic(topics[k])]
        failed == {k \in 1..Len(topics) :
                      ~loaded[k].ok /\ loaded[k].error # "FileNotFoundError"}
    IN  IF failed # {}
        THEN Raise(loaded[CHOOSE k \in failed : \A j \in failed : k <= j].error)
        ELSE Ok(Concat([k \in 1..Len(topics) |->
                           IF loaded[k].ok THEN loaded[k].value ELSE << >>]))

\* QuizManager.load_quiz_from_file(topics=...), topics a list of topic names.
load_quiz_from_file(topics, title) ==
    LET questions == load_questions(topics)
    IN  IF ~questions.ok THEN questions
        ELSE IF questions.value = << >> THEN Raise("FileNotFoundError")
        ELSE Ok(Quiz(title, questions.value))

(***************************************************************************)
(* random.shuffle                                                          *)
(***************************************************************************)

\* Shuffles with a draw that may repeat an element (random.choices).
ShufflesWithReplacement(questions) ==
    {[k \in 1..Len(questions) |-> questions[p[k]]] :
        p \in [1..Len(questions) -> 1..Len(questions)]}

\* The orders random.shuffle can leave a list in.
Shuffles(questions) ==
    {[k \in 1..Len(questions) |-> questions[p[k]]] :
        p \in Permutations(1..Len(questions))}

(***************************************************************************)
(* State                                                                   *)
(***************************************************************************)

VARIABLES
    app,                     \* which front end runs: "web" (main.py) or "cli" (quiz_cli.py)
    last_event,              \* the widget event or typed input the last step handled
    \* st.session_state of the web session
    screen,
    current_quiz,
    quiz_questions,
    current_question_index,
    score,
    answered_questions,
    quiz_mode,
    selected_topic,
    selected_difficulty,
    quiz_answers,
    results_shown,           \* the last script run rendered show_quiz_results' summary
    \* the QuizCLI object and the locals of its running quiz loop
    cli_current_quiz,
    cli_score,
    cli_pc,
    cli_kind,
    cli_questions,
    cli_attempted,
    cli_i,
    \* the QuizManager object a caller uses directly, or the one of QuizCLI
    manager_current_quiz,
    call_result,             \* the last direct call of a function and its outcome
    \* explanation_translator: the module and its ExplanationTranslator
    googletrans_available,   \* GOOGLETRANS_AVAILABLE: the import succeeded
    translation_cache,       \* self._translation_cache
    translate_text_cache,    \* the cache of functools.lru_cache on translate_text
    cache_origin             \* for every entry of the two caches, the call that stored it

web_vars == <<screen, current_quiz, quiz_questions, current_question_index,
              score, answered_questions, quiz_mode, selected_topic,
              selected_difficulty, quiz_answers, results_shown>>

cli_vars == <<cli_current_quiz, cli_score, cli_pc, cli_kind, cli_questions,
              cli_attempted, cli_i>>

manager_vars == <<quizzes_dir, manager_current_quiz, call_result>>

translator_vars ==
    <<googletrans_available, translation_cache, translate_text_cache,
      cache_origin>>

vars == <<app, last_event, web_vars, cli_vars, manager_vars, translator_vars>>

\* A widget event or a typed line: the operation, its number and its text.
Event(op, choice, name) == [op |-> op, choice |-> choice, name |-> name]

\* The empty dict.
EmptyDict == << >>

\* st.radio(..., index=None) with nothing selected returns None.
NoSelection == -1

(***************************************************************************)
(* The web session (main.py)                                               *)
(***************************************************************************)

\* load_available_quizzes: title -> file stem and question count, for the
\* files that carry quiz_metadata; a later file of the same title replaces an
\* earlier one.
AvailableTitles == {quizzes_dir[i].title : i \in FileIndexes}

AvailableTopic(title) ==
    quizzes_dir[CHOOSE i \in FileIndexes :
                 /\ quizzes_dir[i].title = title
                 /\ \A j \in FileIndexes :
                        quizzes_dir[j].title = title => j <= i]

\* list(available_topics.keys()): the titles in the order of their first file.
RECURSIVE TitlesFrom(_)
TitlesFrom(i) ==
    IF i > Len(quizzes_dir) THEN << >>
    ELSE IF \E j \in 1..(i - 1) : quizzes_dir[j].title = quizzes_dir[i].title
         THEN TitlesFrom(i + 1)
         ELSE <<quizzes_dir[i].title>> \o TitlesFrom(i + 1)

AllTitles == TitlesFrom(1)

\* initialize_session_state
WebInit ==
    /\ screen = "welcome"
    /\ current_quiz = NoQuiz
    /\ quiz_questions = << >>
    /\ current_question_index = 0
    /\ score = 0
    /\ answered_questions = 0
    /\ quiz_mode = "full"
    /\ selected_topic = NoneStr
    /\ selected_difficulty = NoneStr
    /\ quiz_answers = EmptyDict
    /\ results_shown = FALSE

\* show_welcome_screen: the start button.
WelcomeStart ==
    /\ app = "web" /\ screen = "welcome"
    /\ screen' = "options"
    /\ last_event' = Event("welcome_start", 0, "")
    /\ UNCHANGED <<app, translator_vars, manager_vars, current_quiz,
                   quiz_questions, current_question_index, score,
                   answered_questions, quiz_mode, selected_topic,
                   selected_difficulty, quiz_answers, results_shown, cli_vars>>

\* main: the sidebar's home button.
SidebarHome ==
    /\ app = "web" /\ screen # "welcome"
    /\ screen' = "welcome"
    /\ results_shown' = FALSE
    /\ last_event' = Event("sidebar_home", 0, "")
    /\ UNCHANGED <<app, translator_vars, manager_vars, current_quiz,
                   quiz_questions, current_question_index, score,
                   answered_questions, quiz_mode, selected_topic,
                   selected_difficulty, quiz_answers, cli_vars>>

\* main: the sidebar's options button.
SidebarOptions ==
    /\ app = "web" /\ ~current_quiz.is_none /\ screen # "options"
    /\ screen' = "options"
    /\ results_shown' = FALSE
    /\ last_event' = Event("sidebar_options", 0, "")
    /\ UNCHANGED <<app, translator_vars, manager_vars, current_quiz,
                   quiz_questions, current_question_index, score,
                   answered_questions, quiz_mode, selected_topic,
                   selected_difficulty, quiz_answers, cli_vars>>

\* show_options_screen: the load button, for "all topics" or one listed title.
\* An exception of the load is caught and reported; the assignment to
\* current_quiz then never happens.
LoadSelectedTopics(selected_topic_title) ==
    /\ app = "web" /\ screen = "options"
    /\ LET loaded ==
               IF selected_topic_title = "all_topics"
               THEN load_quiz_from_file(AllTitles, AllTitles)
               ELSE LET topic == AvailableTopic(selected_topic_title).stem
                    IN  load_quiz_from_file(<<topic>>, <<topic>>)
       IN  current_quiz' = IF loaded.ok THEN loaded.value ELSE current_quiz
    /\ last_event' = Event("load", 0, selected_topic_title)
    /\ UNCHANGED <<app, translator_vars, manager_vars, screen, quiz_questions,
                   current_question_index, score, answered_questions,
                   quiz_mode, selected_topic, selected_difficulty,
                   quiz_answers, results_shown, cli_vars>>

\* show_options_screen: the buttons that lead to another screen, shown once a
\* quiz is loaded.
OptionsGoTo(target) ==
    /\ app = "web" /\ screen = "options" /\ ~current_quiz.is_none
    /\ screen' = target
    /\ last_event' = Event("goto", 0, target)
    /\ UNCHANGED <<app, translator_vars, manager_vars, current_quiz,
                   quiz_questions, current_question_index, score,
                   answered_questions, quiz_mode, selected_topic,
                   selected_difficulty, quiz_answers, results_shown, cli_vars>>

\* show_topic_selection and show_stats_screen: the back button.  (The
\* difficulty screen reads .questions of the list load_questions returns, and
\* returns on that exception before it draws any button.)
BackToOptions ==
    /\ app = "web" /\ screen \in {"topic_selection", "stats"}
    /\ screen' = "options"
    /\ last_event' = Event("back", 0, "")
    /\ UNCHANGED <<app, translator_vars, manager_vars, current_quiz,
                   quiz_questions, current_question_index, score,
                   answered_questions, quiz_mode, selected_topic,
                   selected_difficulty, quiz_answers, results_shown, cli_vars>>

\* ModeQuestions without the filters: every mode takes the whole quiz.
ModeQuestionsUnfiltered(mode, quiz, topic, difficulty) == quiz.questions

\* The questions start_quiz_mode selects from quiz for the mode.
ModeQuestions(mode, quiz, topic, difficulty) ==
    IF mode = "topic" /\ topic # NoneStr
    THEN SelectSeq(quiz.questions, LAMBDA q : Lower(q.topic) = Lower(topic))
    ELSE IF mode = "difficulty" /\ difficulty # NoneStr
    THEN SelectSeq(quiz.questions,
                   LAMBDA q : Lower(q.difficulty) = Lower(difficulty))
    ELSE quiz.questions

\* The session state start_quiz_mode initialises, for the shuffled questions.
InitQuizState(mode, questions) ==
    /\ quiz_questions' = questions
    /\ current_question_index' = 0
    /\ score' = 0
    /\ answered_questions' = 0
    /\ quiz_mode' = mode
    /\ quiz_answers' = EmptyDict
    /\ screen' = "quiz"

\* start_quiz_mode(mode), called with st.session_state.current_quiz = quiz,
\* selected_topic = topic and selected_difficulty = difficulty.  In full mode
\* the list that is shuffled in place is the loaded quiz's own list.
StartQuizMode(mode, quiz, topic, difficulty) ==
    LET questions == ModeQuestions(mode, quiz, topic, difficulty)
        in_place == ~(mode = "topic" /\ topic # NoneStr)
                    /\ ~(mode = "difficulty" /\ difficulty # NoneStr)
    IN  /\ results_shown' = FALSE
        /\ IF quiz.is_none \/ questions = << >>
           THEN /\ current_quiz' = quiz
                /\ UNCHANGED <<quiz_questions, current_question_index, score,
                               answered_questions, quiz_mode, quiz_answers,
                               screen>>
           ELSE \E shuffled \in Shuffles(questions) :
                    /\ InitQuizState(mode, shuffled)
                    /\ current_quiz' =
                           IF in_place
                           THEN [quiz EXCEPT !.questions = shuffled]
                           ELSE quiz

\* show_options_screen: the complete-quiz button.
StartFullQuiz ==
    /\ app = "web" /\ screen = "options" /\ ~current_quiz.is_none
    /\ StartQuizMode("full", current_quiz, selected_topic, selected_difficulty)
    /\ last_event' = Event("start_full", 0, "")
    /\ UNCHANGED <<app, translator_vars, manager_vars, selected_topic,
                   selected_difficulty, cli_vars>>

\* show_topic_selection: the button of one listed title.  The load's
\* exception is caught after nothing of the followed session state was
\* assigned.
StartTopicQuiz(title) ==
    /\ app = "web" /\ screen = "topic_selection"
    /\ LET loaded == load_quiz_from_file(<<AvailableTopic(title).stem>>,
                                         <<AvailableTopic(title).stem>>)
       IN  IF loaded.ok
           THEN /\ selected_topic' = title
                /\ StartQuizMode("topic", loaded.value, title,
                                 selected_difficulty)
           ELSE UNCHANGED <<web_vars>>
    /\ last_event' = Event("start_topic", 0, title)
    /\ UNCHANGED <<app, translator_vars, manager_vars, selected_difficulty,
                   cli_vars>>

\* show_quiz_screen draws the question form: a session is started and the
\* index is inside the question list.
FormShown ==
    /\ screen = "quiz"
    /\ quiz_questions # << >>
    /\ current_question_index < Len(quiz_questions)

\* The question the form shows.
CurrentQuestion == quiz_questions[current_question_index + 1]

\* What st.radio can return for the question: nothing, or one of its options.
RadioSelections(question) == {NoSelection} \cup (0..(Len(question.choices) - 1))

\* The value st.radio returns for the selected option: the option's string.
RadioValue(options, selection) == options[selection + 1]

\* is_correct of show_quiz_screen: the selected string against the string of
\* the correct option.
IsCorrect(question, user_answer) ==
    user_answer = question.choices[question.correct_answer + 1]

\* The entry show_quiz_screen stores in quiz_answers.
AnswerRecord(question, user_answer) ==
    [user_answer |-> user_answer,
     correct_answer |-> question.choices[question.correct_answer + 1],
     is_correct |-> IsCorrect(question, user_answer)]

\* IndexAfterSubmit that tests current_index + 1 <= total_questions.
IndexPastLast(index, total_questions) ==
    IF index + 1 <= total_questions THEN index + 1 ELSE index

\* IndexAfterSubmit without the test for the last question.
IndexAlwaysAdvances(index, total_questions) == index + 1

\* The index after an accepted answer: the next question, unless this is the
\* last one.
IndexAfterSubmit(index, total_questions) ==
    IF index + 1 < total_questions THEN index + 1 ELSE index

\* show_quiz_screen: the form's submit button, with the radio's selection.
SubmitAnswer(selection) ==
    /\ app = "web" /\ FormShown
    /\ selection \in RadioSelections(CurrentQuestion)
    /\ answered_questions < MaxAnswered
    /\ last_event' = Event("submit", selection, "")
    /\ IF selection = NoSelection
       THEN /\ results_shown' = FALSE
            /\ UNCHANGED <<score, answered_questions, quiz_answers,
                           current_question_index>>
       ELSE LET question == CurrentQuestion
                user_answer == RadioValue(question.choices, selection)
                total_questions == Len(quiz_questions)
            IN  /\ score' = IF IsCorrect(question, user_answer)
                            THEN score + 1 ELSE score
                /\ answered_questions' = answered_questions + 1
                /\ quiz_answers' =
                       (current_question_index :>
                            AnswerRecord(question, user_answer)) @@ quiz_answers
                /\ current_question_index' =
                       IndexAfterSubmit(current_question_index, total_questions)
                /\ results_shown' =
                       ~(current_question_index + 1 < total_questions)
    /\ UNCHANGED <<app, translator_vars, manager_vars, screen, current_quiz,
                   quiz_questions, quiz_mode, selected_topic,
                   selected_difficulty, cli_vars>>

\* show_quiz_screen: the form's quit button.
QuitQuiz ==
    /\ app = "web" /\ FormShown
    /\ last_event' = Event("quit", 0, "")
    /\ IF answered_questions > 0
       THEN results_shown' = TRUE /\ screen' = screen
       ELSE results_shown' = FALSE /\ screen' = "options"
    /\ UNCHANGED <<app, translator_vars, manager_vars, current_quiz,
                   quiz_questions, current_question_index, score,
                   answered_questions, quiz_mode, selected_topic,
                   selected_difficulty, quiz_answers, cli_vars>>

\* RestartQuiz as a new start: the question sequence is shuffled again.
RestartByNewStart ==
    /\ app = "web" /\ results_shown
    /\ quiz_questions' \in Shuffles(quiz_questions)
    /\ current_question_index' = 0
    /\ score' = 0
    /\ answered_questions' = 0
    /\ quiz_answers' = EmptyDict
    /\ results_shown' = FALSE
    /\ last_event' = Event("restart", 0, "")
    /\ UNCHANGED <<app, translator_vars, manager_vars, screen, current_quiz,
                   quiz_mode, selected_topic, selected_difficulty, cli_vars>>

\* show_quiz_results: the restart button of the summary, taken as pressed
\* whenever the summary is on the page.  It resets the counters and keeps the
\* question sequence, so it leads to a state a start leads to as well.
RestartQuiz ==
    /\ app = "web" /\ results_shown
    /\ current_question_index' = 0
    /\ score' = 0
    /\ answered_questions' = 0
    /\ quiz_answers' = EmptyDict
    /\ results_shown' = FALSE
    /\ last_event' = Event("restart", 0, "")
    /\ UNCHANGED <<app, translator_vars, manager_vars, screen, current_quiz,
                   quiz_questions, quiz_mode, selected_topic,
                   selected_difficulty, cli_vars>>

\* show_quiz_results: the buttons of the summary that leave the quiz screen
\* ("Back to Main Menu" and "Take Another Quiz" to options, "Back to Welcome").
ResultsGoTo(target) ==
    /\ app = "web" /\ results_shown
    /\ screen' = target
    /\ results_shown' = FALSE
    /\ last_event' = Event("results_goto", 0, target)
    /\ UNCHANGED <<app, translator_vars, manager_vars, current_quiz,
                   quiz_questions, current_question_index, score,
                   answered_questions, quiz_mode, selected_topic,
                   selected_difficulty, quiz_answers, cli_vars>>

WebNext ==
    \/ WelcomeStart
    \/ SidebarHome
    \/ SidebarOptions
    \/ \E selected \in {"all_topics"} \cup AvailableTitles :
           LoadSelectedTopics(selected)
    \/ \E target \in {"topic_selection", "difficulty_selection", "stats"} :
           OptionsGoTo(target)
    \/ BackToOptions
    \/ StartFullQuiz
    \/ \E title \in AvailableTitles : StartTopicQuiz(title)
    \/ \E selection \in NoSelection..(MaxChoices - 1) : SubmitAnswer(selection)
    \/ QuitQuiz
    \/ RestartQuiz
    \/ \E target \in {"options", "welcome"} : ResultsGoTo(target)

(***************************************************************************)
(* The CLI session (quiz_cli.py)                                           *)
(***************************************************************************)

\* A line read by input(): text that int() rejects, or the text of a number.
TextLine(text) == [is_number |-> FALSE, text |-> text, number |-> 0]
NumberLine(n) == [is_number |-> TRUE, text |-> "", number |-> n]

\* The lines the model types at a prompt.
TypedLines ==
    {TextLine(t) : t \in {"", "all", "q", "Q", "quit", "n", "x", "1,2"}}
        \cup {NumberLine(n) : n \in 0..(MaxChoices + 1)}

\* The event of a typed line.
LineEvent(op, line) ==
    IF line.is_number THEN Event(op, line.number, "int")
    ELSE Event(op, 0, line.text)

\* user_input in ['q', 'quit'], after strip().lower()
IsQuitCommand(line) == ~line.is_number /\ Lower(line.text) \in {"q", "quit"}

\* QuizManager._discover_topics: the topic names of the *.yaml files.
available_topics == [i \in FileIndexes |-> StemToTopic(quizzes_dir[i].stem)]

\* The questions a menu loads for a topic; a load that raises counts as none
\* (load_quiz_menu skips it, practice_by_topic finds no entry for it).
TopicQuestions(topic) ==
    LET loaded == load_questions_by_topic(topic)
    IN  IF loaded.ok THEN loaded.value ELSE << >>

\* Quiz.get_questions_by_difficulty
get_questions_by_difficulty(quiz, difficulty) ==
    SelectSeq(quiz.questions,
              LAMBDA q : Lower(q.difficulty) = Lower(difficulty))

\* QuizCLI.__init__, and no quiz loop running.
CliInit ==
    /\ cli_current_quiz = NoQuiz
    /\ cli_score = 0
    /\ cli_pc = "menu"
    /\ cli_kind = "none"
    /\ cli_questions = << >>
    /\ cli_attempted = 0
    /\ cli_i = 0

\* The topics load_quiz_menu selects for the typed line: the empty list when
\* the line is empty, is no number, or names no topic.
SelectedTopics(line) ==
    IF ~line.is_number
    THEN IF Lower(line.text) = "all" THEN available_topics ELSE << >>
    ELSE IF line.number = Len(available_topics) + 1 THEN available_topics
    ELSE IF 0 <= line.number - 1 /\ line.number - 1 < Len(available_topics)
    THEN <<available_topics[line.number]>>
    ELSE << >>

\* QuizCLI.load_quiz_menu, with the line typed at its prompt.
CliLoadQuiz(line) ==
    /\ app = "cli" /\ cli_pc = "menu"
    /\ LET selected_topics == SelectedTopics(line)
           questions == Concat([k \in 1..Len(selected_topics) |->
                                   TopicQuestions(selected_topics[k])])
       IN  cli_current_quiz' =
               IF questions = << >> THEN cli_current_quiz
               ELSE Quiz(selected_topics, questions)
    /\ last_event' = LineEvent("cli_load", line)
    /\ UNCHANGED <<app, translator_vars, manager_vars, web_vars, cli_score,
                   cli_pc, cli_kind, cli_questions, cli_attempted, cli_i>>

\* The quiz loop entered over the shuffled questions, the score reset.
EnterLoop(kind, questions) ==
    /\ cli_questions' = questions
    /\ cli_score' = 0
    /\ cli_attempted' = 0
    /\ cli_kind' = kind
    /\ cli_i' = IF questions = << >> THEN 0 ELSE 1
    /\ cli_pc' = IF questions = << >> THEN "results" ELSE "answer"

\* QuizCLI.start_quiz up to its first prompt.
CliStartQuiz ==
    /\ app = "cli" /\ cli_pc = "menu"
    /\ IF cli_current_quiz.is_none
       THEN UNCHANGED <<cli_score, cli_pc, cli_kind, cli_questions,
                        cli_attempted, cli_i>>
       ELSE \E shuffled \in Shuffles(cli_current_quiz.questions) :
                EnterLoop("quiz", shuffled)
    /\ last_event' = Event("cli_start", 0, "")
    /\ UNCHANGED <<app, translator_vars, manager_vars, web_vars,
                   cli_current_quiz>>

\* QuizCLI._practice_questions up to its first prompt.
PracticeQuestions(questions) ==
    IF questions = << >>
    THEN UNCHANGED <<cli_score, cli_pc, cli_kind, cli_questions,
                     cli_attempted, cli_i>>
    ELSE \E shuffled \in Shuffles(questions) : EnterLoop("practice", shuffled)

\* QuizCLI.practice_by_topic, with the line typed at its prompt.
CliPracticeByTopic(line) ==
    /\ app = "cli" /\ cli_pc = "menu"
    /\ IF /\ line.is_number
          /\ 0 <= line.number - 1
          /\ line.number - 1 < Len(available_topics)
       THEN PracticeQuestions(TopicQuestions(available_topics[line.number]))
       ELSE UNCHANGED <<cli_score, cli_pc, cli_kind, cli_questions,
                        cli_attempted, cli_i>>
    /\ last_event' = LineEvent("cli_topic", line)
    /\ UNCHANGED <<app, translator_vars, manager_vars, web_vars,
                   cli_current_quiz>>

\* QuizCLI.practice_by_difficulty, with the line typed at its prompt.  The
\* levels are listed in the order of a set's iteration, so a number in range
\* can name any level of the quiz.
CliPracticeByDifficulty(line) ==
    /\ app = "cli" /\ cli_pc = "menu" /\ ~cli_current_quiz.is_none
    /\ LET difficulties ==
               {cli_current_quiz.questions[k].difficulty :
                   k \in 1..Len(cli_current_quiz.questions)}
       IN  IF /\ line.is_number
              /\ 1 <= line.number
              /\ line.number <= Cardinality(difficulties)
           THEN \E selected_difficulty_ \in difficulties :
                    PracticeQuestions(
                        get_questions_by_difficulty(cli_current_quiz,
                                                    selected_difficulty_))
           ELSE UNCHANGED <<cli_score, cli_pc, cli_kind, cli_questions,
                            cli_attempted, cli_i>>
    /\ last_event' = LineEvent("cli_difficulty", line)
    /\ UNCHANGED <<app, translator_vars, manager_vars, web_vars,
                   cli_current_quiz>>

\* The question the loop asks.
CliQuestion == cli_questions[cli_i]

\* AnswerInRange with the upper limit included (<= for <).
AnswerInRangeInclusive(question, line) ==
    /\ line.is_number
    /\ 0 <= line.number - 1
    /\ line.number - 1 <= Len(question.choices)

\* The answer prompt accepts the line: int(user_input) - 1 indexes a choice.
AnswerInRange(question, line) ==
    /\ line.is_number
    /\ 0 <= line.number - 1
    /\ line.number - 1 < Len(question.choices)

\* The answer prompt of start_quiz and of _practice_questions: quit shows the
\* results, a choice in range is graded, any other line is asked again.
CliAnswer(line) ==
    /\ app = "cli" /\ cli_pc = "answer"
    /\ cli_attempted < MaxAnswered
    /\ last_event' = LineEvent("cli_answer", line)
    /\ IF IsQuitCommand(line)
       THEN /\ cli_pc' = "results"
            /\ UNCHANGED <<cli_score, cli_attempted>>
       ELSE IF AnswerInRange(CliQuestion, line)
       THEN /\ cli_attempted' = cli_attempted + 1
            /\ cli_score' = IF line.number - 1 = CliQuestion.correct_answer
                            THEN cli_score + 1 ELSE cli_score
            /\ cli_pc' = IF cli_i < Len(cli_questions)
                         THEN "continue" ELSE "results"
       ELSE UNCHANGED <<cli_pc, cli_score, cli_attempted>>
    /\ UNCHANGED <<app, translator_vars, manager_vars, web_vars,
                   cli_current_quiz, cli_kind, cli_questions, cli_i>>

\* The line at the continue prompt ends the loop: quit in both loops, and n
\* in the practice loop.
EndsLoop(kind, line) ==
    \/ IsQuitCommand(line)
    \/ kind = "practice" /\ ~line.is_number /\ Lower(line.text) = "n"

\* The continue prompt between two questions.
CliContinue(line) ==
    /\ app = "cli" /\ cli_pc = "continue"
    /\ last_event' = LineEvent("cli_continue", line)
    /\ IF EndsLoop(cli_kind, line)
       THEN cli_pc' = "results" /\ cli_i' = cli_i
       ELSE cli_pc' = "answer" /\ cli_i' = cli_i + 1
    /\ UNCHANGED <<app, translator_vars, manager_vars, web_vars,
                   cli_current_quiz, cli_score, cli_kind, cli_questions,
                   cli_attempted>>

\* _display_quiz_results and _display_practice_results: Enter returns to the
\* menu, and the loop's locals are gone.
CliResultsEnter ==
    /\ app = "cli" /\ cli_pc = "results"
    /\ cli_pc' = "menu"
    /\ cli_kind' = "none"
    /\ cli_questions' = << >>
    /\ cli_attempted' = 0
    /\ cli_i' = 0
    /\ last_event' = Event("cli_enter", 0, "")
    /\ UNCHANGED <<app, translator_vars, manager_vars, web_vars,
                   cli_current_quiz, cli_score>>

(***************************************************************************)
(* The QuizManager called directly (quiz_manager.py)                       *)
(***************************************************************************)

\* A list of topics passed to the manager holds at most this many names.
MaxTopics == 2

\* The topic names a caller passes: the names of the files, in the letter
\* case _discover_topics gives them, and one that names no file.
CallerTopics ==
    {"Grammar", "Spelling", "Broken", "Short", "Long", "Negative", "Missing"}

\* The lists of topics a caller passes.
TopicLists ==
    UNION {[1..n -> CallerTopics] : n \in 1..MaxTopics}

\* The file paths a caller passes: <stem>.yaml of the quizzes directory.
CallerPaths == {"grammar", "spelling", "broken", "short", "missing"}

\* The arguments of the filters of a Quiz.
FilterTopics == {"Grammar", "grammar", "GRAMMAR", "Spelling", "Missing"}
FilterDifficulties == {"easy", "Easy", "EASY", "hard", "medium"}

\* A call of the manager, its arguments and its outcome.
Call(op, args, outcome) == [op |-> op, args |-> args, outcome |-> outcome]
NoCall == Call("none", << >>, Ok(<< >>))

\* QuizManager.__init__
ManagerInit ==
    /\ manager_current_quiz = NoQuiz
    /\ call_result = NoCall

\* QuizManager.load_quiz_from_file(file_path): the file as one Quiz with its
\* own metadata.  Every exception of the construction and of the validation
\* is raised again as a ValueError.
load_quiz_from_file_path(file_path) ==
    LET found == FilesNamed(file_path)
    IN  IF found = {}
        THEN Raise("FileNotFoundError")
        ELSE LET file == quizzes_dir[CHOOSE i \in found : TRUE]
                 questions == file.questions
             IN  IF \E k \in 1..Len(questions) :
                        ~QuestionFieldsValid(questions[k])
                 THEN Raise("ValueError")
                 ELSE IF ~\A k \in 1..Len(questions) :
                             validate_correct_answer(questions[k])
                 THEN Raise("ValueError")
                 ELSE Ok([Quiz(<<file.title>>, questions)
                             EXCEPT !.total_questions = file.total_questions])

\* CountBy with the letter case of the strings ignored.
CountByLower(questions, field, value) ==
    Cardinality({k \in 1..Len(questions) :
                    Lower(questions[k][field]) = Lower(value)})

\* The number of the questions whose field has the value, as the loop of
\* get_quiz_stats counts them: by the exact string.
CountBy(questions, field, value) ==
    Cardinality({k \in 1..Len(questions) : questions[k][field] = value})

\* QuizManager.get_quiz_stats
get_quiz_stats(quiz) ==
    IF quiz.is_none
    THEN [error |-> "No quiz loaded"]
    ELSE [total_questions |-> Len(quiz.questions),
          topics |->
              [topic \in {quiz.questions[k].topic :
                             k \in 1..Len(quiz.questions)} |->
                  CountBy(quiz.questions, "topic", topic)],
          difficulties |->
              [difficulty \in {quiz.questions[k].difficulty :
                                  k \in 1..Len(quiz.questions)} |->
                  CountBy(quiz.questions, "difficulty", difficulty)],
          title |-> quiz.title]

\* get_questions_by_topic comparing the strings as they are.
get_questions_by_topic_exact(quiz, topic) ==
    SelectSeq(quiz.questions, LAMBDA q : q.topic = topic)

\* Quiz.get_questions_by_topic
get_questions_by_topic(quiz, topic) ==
    SelectSeq(quiz.questions, LAMBDA q : Lower(q.topic) = Lower(topic))

\* A call that leaves the manager as it is.
ManagerCall(op, args, outcome) ==
    /\ app = "manager"
    /\ call_result' = Call(op, args, outcome)
    /\ last_event' = Event("manager_call", 0, op)
    /\ UNCHANGED <<app, translator_vars, quizzes_dir, manager_current_quiz,
                   web_vars, cli_vars>>

\* ManagerLoad with self.current_quiz cleared before the load.
ManagerLoadClearing(op, args, outcome) ==
    /\ app = "manager"
    /\ call_result' = Call(op, args, outcome)
    /\ manager_current_quiz' = IF outcome.ok THEN outcome.value ELSE NoQuiz
    /\ last_event' = Event("manager_call", 0, op)
    /\ UNCHANGED <<app, translator_vars, quizzes_dir, web_vars, cli_vars>>

\* A call that stores the quiz it loaded in self.current_quiz, and raises
\* before that assignment otherwise.
ManagerLoad(op, args, outcome) ==
    /\ app = "manager"
    /\ call_result' = Call(op, args, outcome)
    /\ manager_current_quiz' =
           IF outcome.ok THEN outcome.value ELSE manager_current_quiz
    /\ last_event' = Event("manager_call", 0, op)
    /\ UNCHANGED <<app, translator_vars, quizzes_dir, web_vars, cli_vars>>

ManagerLoadQuestionsByTopic(topic) ==
    ManagerCall("load_questions_by_topic", <<topic>>,
                load_questions_by_topic(topic))

ManagerLoadQuestions(topics) ==
    ManagerCall("load_questions", topics, load_questions(topics))

ManagerLoadQuizFromTopics(topics) ==
    ManagerLoad("load_quiz_from_file", topics,
                load_quiz_from_file(topics, topics))

ManagerLoadQuizFromPath(file_path) ==
    ManagerLoad("load_quiz_from_file_path", <<file_path>>,
                load_quiz_from_file_path(file_path))

ManagerGetQuizStats ==
    ManagerCall("get_quiz_stats", << >>,
                Ok(get_quiz_stats(manager_current_quiz)))

\* manager.current_quiz.get_questions_by_topic(topic), on a loaded quiz
ManagerFilterByTopic(topic) ==
    /\ ~manager_current_quiz.is_none
    /\ ManagerCall("get_questions_by_topic", <<topic>>,
                   Ok(get_questions_by_topic(manager_current_quiz, topic)))

\* manager.current_quiz.get_questions_by_difficulty(difficulty)
ManagerFilterByDifficulty(difficulty) ==
    /\ ~manager_current_quiz.is_none
    /\ ManagerCall("get_questions_by_difficulty", <<difficulty>>,
                   Ok(get_questions_by_difficulty(manager_current_quiz,
                                                  difficulty)))

ManagerNext ==
    \/ \E topic \in CallerTopics : ManagerLoadQuestionsByTopic(topic)
    \/ \E topics \in TopicLists : ManagerLoadQuestions(topics)
    \/ \E topics \in TopicLists : ManagerLoadQuizFromTopics(topics)
    \/ \E file_path \in CallerPaths : ManagerLoadQuizFromPath(file_path)
    \/ ManagerGetQuizStats
    \/ \E topic \in FilterTopics : ManagerFilterByTopic(topic)
    \/ \E difficulty \in FilterDifficulties :
           ManagerFilterByDifficulty(difficulty)

(***************************************************************************)
(* The CLI's statistics entry and its menu (quiz_cli.py)                   *)
(***************************************************************************)

\* What view_quiz_stats prints from the dict get_quiz_stats returned: the
\* title and the counts; stats['title'] of the dict that holds only the key
\* error raises KeyError.
PrintedStats(stats) ==
    IF "title" \in DOMAIN stats THEN Ok(stats) ELSE Raise("KeyError")

\* QuizCLI.view_quiz_stats, chosen at the menu: without a quiz of the CLI a
\* message, else the statistics of self.manager.  An exception is caught by
\* the loop of run, which prints it and shows the menu again.
CliViewQuizStats ==
    /\ app = "cli" /\ cli_pc = "menu"
    /\ call_result' =
           Call("view_quiz_stats", << >>,
                IF cli_current_quiz.is_none
                THEN Ok([message |-> "No quiz loaded"])
                ELSE PrintedStats(get_quiz_stats(manager_current_quiz)))
    /\ last_event' = Event("cli_stats", 0, "")
    /\ UNCHANGED <<app, translator_vars, quizzes_dir, manager_current_quiz,
                   web_vars, cli_vars>>

CliNext ==
    \/ \E line \in TypedLines : CliLoadQuiz(line)
    \/ CliViewQuizStats
    \/ CliStartQuiz
    \/ \E line \in TypedLines : CliPracticeByTopic(line)
    \/ \E line \in TypedLines : CliPracticeByDifficulty(line)
    \/ \E line \in TypedLines : CliAnswer(line)
    \/ \E line \in TypedLines : CliContinue(line)
    \/ CliResultsEnter

(***************************************************************************)
(* The web session's difficulty screen (main.py)                           *)
(***************************************************************************)

\* The levels show_difficulty_selection knows.
DifficultyLevels == {"easy", "medium", "hard"}

\* obj.name for a list obj and a name that is no attribute of list.
ListAttribute(obj, name) == Raise("AttributeError")

\* show_difficulty_selection: difficulty_counts after the try block, or the
\* exception that block catches.  load_questions() returns the list of the
\* questions of all topics, and the loop reads all_questions.questions.
DifficultyCounts ==
    LET all_questions == load_questions(available_topics)
    IN  IF ~all_questions.ok THEN all_questions
        ELSE LET questions == ListAttribute(all_questions.value, "questions")
             IN  IF ~questions.ok THEN questions
                 ELSE Ok([level \in DifficultyLevels |->
                             Cardinality(
                                 {k \in 1..Len(questions.value) :
                                     questions.value[k].difficulty = level})])

\* The levels whose button show_difficulty_selection draws: none when there
\* are no topics or the try block raised (the function returns before the
\* loop over the levels), else the levels with a count above 0.
DifficultyButtons ==
    IF AllTitles = << >> \/ ~DifficultyCounts.ok THEN {}
    ELSE {level \in DifficultyLevels : DifficultyCounts.value[level] > 0}

\* show_difficulty_selection: the button of a level.  It is a step of the
\* session only where the screen draws the button.
StartDifficultyQuiz(level) ==
    /\ app = "web" /\ screen = "difficulty_selection"
    /\ level \in DifficultyButtons
    /\ LET loaded == load_quiz_from_file(available_topics, <<"Comprehensive">>)
       IN  IF loaded.ok
           THEN /\ selected_difficulty' = level
                /\ StartQuizMode("difficulty", loaded.value, selected_topic,
                                 level)
           ELSE UNCHANGED <<web_vars>>
    /\ last_event' = Event("start_difficulty", 0, level)
    /\ UNCHANGED <<app, translator_vars, manager_vars, selected_topic,
                   cli_vars>>

(***************************************************************************)
(* The explanation of a question (quiz_manager.py,                         *)
(* explanation_translator.py)                                              *)
(***************************************************************************)

\* The explanation fields of a Question.  "" stands for None and for the
\* empty string, which every test of the two resolvers treats alike.
Explained(explanation, explanation_zh_TW, explanation_zh_CN) ==
    [explanation |-> explanation,
     explanation_zh_TW |-> explanation_zh_TW,
     explanation_zh_CN |-> explanation_zh_CN]

\* The questions whose explanation is asked for.
ExplainedQuestions ==
    {Explained(en, tw, cn) :
        en \in {"", "English text"},
        tw \in {"", "Traditional text"},
        cn \in {"", "Simplified text"}}

\* The language codes a caller passes.
LanguageCodes == {"en", "zh_TW", "zh_CN", "zh", "fr"}

\* Question.get_explanation without its branch for zh_TW from zh_CN.
Question_get_explanation_exact(question, language) ==
    IF language = "zh_TW" /\ question.explanation_zh_TW # ""
    THEN question.explanation_zh_TW
    ELSE IF language = "zh_CN" /\ question.explanation_zh_CN # ""
    THEN question.explanation_zh_CN
    ELSE question.explanation

\* Question.get_explanation
Question_get_explanation(question, language) ==
    IF language = "zh_TW" /\ question.explanation_zh_TW # ""
    THEN question.explanation_zh_TW
    ELSE IF language = "zh_CN" /\ question.explanation_zh_CN # ""
    THEN question.explanation_zh_CN
    ELSE IF language = "zh_TW" /\ question.explanation_zh_CN # ""
    THEN question.explanation_zh_CN
    ELSE question.explanation

\* lang_map.get(target_language, None) of translate_text
LangMap(target_language) ==
    CASE target_language = "zh_TW" -> "zh-tw"
      [] target_language = "zh_CN" -> "zh-cn"
      [] target_language = "zh" -> "zh-tw"
      [] target_language = "en" -> "en"
      [] OTHER -> NoneStr

\* f"{text}_{target_language}"
CacheKey(text, target_language) == text \o "_" \o target_language

\* What self.translator.translate(text, dest) can do: return a text of the
\* destination language, or raise (the service is not reached).
TranslateOutcomes(text, dest) ==
    {Ok(dest \o "(" \o text \o ")"), Raise("Exception")}

\* The except clause of translate_text left out: the exception of the service
\* leaves translate_text.
TranslationFailedUncaught(text, cache) ==
    [result |-> NoneStr, cache |-> cache, exception |-> "Exception",
     translate_raised |-> TRUE]

\* translate_text, the except clause: the exception is printed and the text
\* passed in is returned.
TranslationFailed(text, cache) ==
    [result |-> text, cache |-> cache, exception |-> "",
     translate_raised |-> TRUE]

\* The body of translate_text with the outcome the service has for the call:
\* the text returned, self._translation_cache after it, the exception that
\* leaves the body ("" for none) and whether self.translator.translate was
\* called and raised.
TranslateTextBody(text, target_language, service, cache) ==
    LET cache_key == CacheKey(text, target_language)
        target_lang == LangMap(target_language)
        returned(result, cache_after) ==
            [result |-> result, cache |-> cache_after, exception |-> "",
             translate_raised |-> FALSE]
    IN  IF ~googletrans_available \/ text = ""
        THEN returned(text, cache)
        ELSE IF cache_key \in DOMAIN cache
        THEN returned(cache[cache_key], cache)
        ELSE IF target_lang = "en" \/ target_lang = NoneStr
        THEN returned(text, cache)
        ELSE IF service.ok
        THEN returned(service.value, (cache_key :> service.value) @@ cache)
        ELSE TranslationFailed(text, cache)

\* translate_text behind functools.lru_cache: a call with arguments seen
\* before returns what that call returned and runs nothing; a call that
\* raises is not remembered.
translate_text(text, target_language, service, cache, lru) ==
    LET arguments == <<text, target_language>>
    IN  IF arguments \in DOMAIN lru
        THEN [result |-> lru[arguments], cache |-> cache, lru |-> lru,
              exception |-> "", translate_raised |-> FALSE]
        ELSE LET body == TranslateTextBody(text, target_language, service,
                                           cache)
             IN  [result |-> body.result, cache |-> body.cache,
                  lru |-> IF body.exception = ""
                          THEN (arguments :> body.result) @@ lru
                          ELSE lru,
                  exception |-> body.exception,
                  translate_raised |-> body.translate_raised]

\* PreTranslated that finds no attribute for any language.
PreTranslatedNever(question_obj, language) == ""

\* get_explanation, priority 1: getattr(question_obj, f"explanation_{language}")
\* where a Question has that attribute, "" where it has none.
PreTranslated(question_obj, language) ==
    CASE language = "zh_TW" -> question_obj.explanation_zh_TW
      [] language = "zh_CN" -> question_obj.explanation_zh_CN
      [] OTHER -> ""

\* AlternativeChinese that also answers zh_CN from the zh_TW field.
AlternativeChineseBothWays(question_obj, language) ==
    CASE language = "zh_TW" -> question_obj.explanation_zh_CN
      [] language = "zh_CN" -> question_obj.explanation_zh_TW
      [] OTHER -> ""

\* get_explanation, priority 2: for zh_TW the first non-empty of
\* explanation_zh_CN and explanation_zh; a Question has no explanation_zh.
AlternativeChinese(question_obj, language) ==
    IF language = "zh_TW" THEN question_obj.explanation_zh_CN ELSE ""

\* ExplanationTranslator.get_explanation: the text returned, whether
\* translate_text was called, and the two caches after the call.
Translator_get_explanation(question_obj, language, service, cache, lru) ==
    LET unchanged(text) ==
            [result |-> text, auto_translated |-> FALSE,
             cache |-> cache, lru |-> lru,
             exception |-> "", translate_raised |-> FALSE]
        original_explanation == question_obj.explanation
    IN  IF PreTranslated(question_obj, language) # ""
        THEN unchanged(PreTranslated(question_obj, language))
        ELSE IF AlternativeChinese(question_obj, language) # ""
        THEN unchanged(AlternativeChinese(question_obj, language))
        ELSE IF original_explanation = ""
        THEN unchanged("")
        ELSE IF language # "en" /\ googletrans_available
        THEN LET translated == translate_text(original_explanation, language,
                                              service, cache, lru)
             IN  [result |-> translated.result, auto_translated |-> TRUE,
                  cache |-> translated.cache, lru |-> translated.lru,
                  exception |-> translated.exception,
                  translate_raised |-> translated.translate_raised]
        ELSE unchanged(original_explanation)

\* What a resolver hands to its caller: the text, whether translate_text was
\* called for it and whether the translation service raised in that call.
Resolved(text, auto_translated, translate_raised) ==
    [text |-> text, auto_translated |-> auto_translated,
     translate_raised |-> translate_raised]

\* The sessions one process serves: each runs the script with its own
\* st.session_state and the modules the process imported once.
Users == {0, 1}

\* The call that stored an entry of a cache: its arguments and its session.
Origin(text, target_language, user) ==
    [text |-> text, target_language |-> target_language, user |-> user]

\* The origins after a call of translate_text(text, target_language) by the
\* session user: the entries the call added are its own.
OriginsAfter(origin, cache, lru, text, target_language, user) ==
    [dict |-> [k \in DOMAIN cache |->
                  IF k \in DOMAIN origin.dict THEN origin.dict[k]
                  ELSE Origin(text, target_language, user)],
     lru |-> [a \in DOMAIN lru |->
                  IF a \in DOMAIN origin.lru THEN origin.lru[a]
                  ELSE Origin(text, target_language, user)]]

\* ExplanationTranslator.__init__ of the module's one instance
TranslatorInit ==
    /\ translation_cache = EmptyDict
    /\ translate_text_cache = EmptyDict
    /\ cache_origin = [dict |-> EmptyDict, lru |-> EmptyDict]

\* get_translated_explanation(question_obj, language), called in the script
\* run of the session user: get_translator() hands every session the
\* module's _translator_instance.
ResolveWithTranslator(user, question_obj, language) ==
    /\ app = "resolver"
    /\ \E service \in TranslateOutcomes(question_obj.explanation,
                                        LangMap(language)) :
           LET resolved == Translator_get_explanation(
                               question_obj, language, service,
                               translation_cache, translate_text_cache)
           IN  /\ call_result' =
                      Call("get_translated_explanation",
                           <<question_obj, language>>,
                           IF resolved.exception = ""
                           THEN Ok(Resolved(resolved.result,
                                            resolved.auto_translated,
                                            resolved.translate_raised))
                           ELSE Raise(resolved.exception))
               /\ translation_cache' = resolved.cache
               /\ translate_text_cache' = resolved.lru
               /\ cache_origin' =
                      OriginsAfter(cache_origin, resolved.cache, resolved.lru,
                                   question_obj.explanation, language, user)
    /\ last_event' = Event("resolve", user, "get_translated_explanation")
    /\ UNCHANGED <<app, googletrans_available, manager_current_quiz,
                   quizzes_dir, web_vars, cli_vars>>

\* question.get_explanation(language)
ResolveWithQuestion(question_obj, language) ==
    /\ app = "resolver"
    /\ call_result' =
           Call("Question.get_explanation", <<question_obj, language>>,
                Ok(Resolved(Question_get_explanation(question_obj, language),
                            FALSE, FALSE)))
    /\ last_event' = Event("resolve", 0, "Question.get_explanation")
    /\ UNCHANGED <<app, translator_vars, manager_current_quiz, quizzes_dir,
                   web_vars, cli_vars>>

\* translator.translate_text(text, target_language) called on the module's
\* instance.
TranslateText(text, target_language) ==
    /\ app = "resolver"
    /\ \E service \in TranslateOutcomes(text, LangMap(target_language)) :
           LET translated == translate_text(text, target_language, service,
                                            translation_cache,
                                            translate_text_cache)
           IN  /\ call_result' =
                      Call("translate_text", <<text, target_language>>,
                           IF translated.exception = ""
                           THEN Ok(translated.result)
                           ELSE Raise(translated.exception))
               /\ translation_cache' = translated.cache
               /\ translate_text_cache' = translated.lru
               /\ cache_origin' =
                      OriginsAfter(cache_origin, translated.cache,
                                   translated.lru, text, target_language, 0)
    /\ last_event' = Event("translate", 0, "translate_text")
    /\ UNCHANGED <<app, googletrans_available, manager_current_quiz,
                   quizzes_dir, web_vars, cli_vars>>

ResolverNext ==
    \/ \E question_obj \in ExplainedQuestions, language \in LanguageCodes :
           ResolveWithTranslator(0, question_obj, language)
    \/ \E question_obj \in ExplainedQuestions, language \in LanguageCodes :
           ResolveWithQuestion(question_obj, language)

(***************************************************************************)
(* The figures of the quiz header and of the results pages                 *)
(***************************************************************************)

\* A quotient a / b before it is formatted.
Ratio(a, b) == [num |-> a, den |-> b]

\* Python's a / b on ints.
Divide(a, b) ==
    IF b = 0 THEN Raise("ZeroDivisionError") ELSE Ok(Ratio(a, b))

\* QuizScreenAccuracy without its test of the answer count.
AccuracyUnguarded(score_, attempted) == Divide(score_, attempted)

\* show_quiz_screen: the accuracy of the header above the question.
QuizScreenAccuracy(score_, attempted) ==
    IF attempted > 0 THEN Divide(score_, attempted) ELSE Ok(Ratio(0, 1))

\* show_quiz_results: topic_stats, keyed by the topics of the questions.
TopicStats(questions, answers) ==
    [topic \in {questions[k].topic : k \in 1..Len(questions)} |->
        [correct |-> Cardinality({k \in 1..Len(questions) :
                        /\ questions[k].topic = topic
                        /\ (k - 1) \in DOMAIN answers
                        /\ answers[k - 1].is_correct}),
         total |-> Cardinality({k \in 1..Len(questions) :
                        questions[k].topic = topic})]]

\* show_quiz_results: difficulty_stats, with its three fixed keys; a question
\* of another difficulty is counted under none.
DifficultyStats(questions, answers) ==
    [difficulty \in {"easy", "medium", "hard"} |->
        [correct |-> Cardinality({k \in 1..Len(questions) :
                        /\ Lower(questions[k].difficulty) = difficulty
                        /\ (k - 1) \in DOMAIN answers
                        /\ answers[k - 1].is_correct}),
         total |-> Cardinality({k \in 1..Len(questions) :
                        Lower(questions[k].difficulty) = difficulty})]]

\* The percentages shown for the entries of stats that have a total.
StatsPercentages(stats) ==
    [key \in {k \in DOMAIN stats : stats[k].total > 0} |->
        Divide(stats[key].correct, stats[key].total)]

\* show_quiz_results: the divisions of the page; with nothing attempted the
\* page is a warning and computes nothing.
show_quiz_results(score_, attempted, questions, answers) ==
    IF attempted = 0
    THEN [no_data |-> TRUE, accuracy |-> Ok(Ratio(0, 1)),
          progress |-> Ok(Ratio(0, 1)),
          by_topic |-> << >>, by_difficulty |-> << >>]
    ELSE [no_data |-> FALSE,
          accuracy |-> Divide(score_, attempted),
          progress |-> Divide(score_, Len(questions)),
          by_topic |-> StatsPercentages(TopicStats(questions, answers)),
          by_difficulty |->
              StatsPercentages(DifficultyStats(questions, answers))]

\* _display_quiz_results and _display_practice_results: the percentage, or
\* the line that nothing was attempted.
display_results(score_, attempted) ==
    IF attempted > 0
    THEN [no_data |-> FALSE, percentage |-> Divide(score_, attempted)]
    ELSE [no_data |-> TRUE, percentage |-> Ok(Ratio(0, 1))]

(***************************************************************************)
(* Specification                                                           *)
(***************************************************************************)

Init ==
    /\ app \in {"web", "cli"}
    /\ last_event = Event("init", 0, "")
    /\ WebInit
    /\ CliInit
    /\ ManagerInit
    /\ quizzes_dir = QuizFiles
    /\ TranslatorInit
    /\ googletrans_available = FALSE

Next == WebNext \/ CliNext

Spec == Init /\ [][Next]_vars

\* The manager called directly, and the CLI with its own manager, over the
\* directory that holds invalid records.
LoaderInit ==
    /\ app \in {"manager", "cli"}
    /\ last_event = Event("init", 0, "")
    /\ WebInit
    /\ CliInit
    /\ ManagerInit
    /\ quizzes_dir = DamagedFiles
    /\ TranslatorInit
    /\ googletrans_available = FALSE

LoaderNext == ManagerNext \/ CliNext

LoaderSpec == LoaderInit /\ [][LoaderNext]_vars

\* The web session over the directory with a question of another difficulty.
LevelsInit ==
    /\ app = "web"
    /\ last_event = Event("init", 0, "")
    /\ WebInit
    /\ CliInit
    /\ ManagerInit
    /\ quizzes_dir = LevelFiles
    /\ TranslatorInit
    /\ googletrans_available = FALSE

LevelsSpec == LevelsInit /\ [][WebNext]_vars

\* The two resolvers of an explanation called directly, with and without
\* the googletrans package.
ResolverInit ==
    /\ app = "resolver"
    /\ last_event = Event("init", 0, "")
    /\ WebInit
    /\ CliInit
    /\ ManagerInit
    /\ quizzes_dir = QuizFiles
    /\ TranslatorInit
    /\ googletrans_available \in BOOLEAN

ResolverSpec == ResolverInit /\ [][ResolverNext]_vars

\* The texts and the language codes translate_text is called with: two texts
\* of which one ends in "_zh", and codes inside and outside lang_map.
TranslatedTexts == {"hello", "hello_zh"}
TranslateLanguages == {"zh_TW", "zh_CN", "en", "fr", "TW"}

\* translate_text called directly.
TranslatorNext ==
    \E text \in TranslatedTexts, target_language \in TranslateLanguages :
        TranslateText(text, target_language)

TranslatorSpec == ResolverInit /\ [][TranslatorNext]_vars

\* Two sessions of one process that resolve explanations through
\* get_translated_explanation.
ServedQuestions ==
    {Explained("English text", "", ""),
     Explained("English text", "Traditional text", "")}
ServedLanguages == {"en", "zh_TW", "zh_CN"}

ServingNext ==
    \E user \in Users, question_obj \in ServedQuestions,
       language \in ServedLanguages :
        ResolveWithTranslator(user, question_obj, language)

ServingSpec == ResolverInit /\ [][ServingNext]_vars

(***************************************************************************)
(* Properties of the sessions                                              *)
(***************************************************************************)

\* A web session is started: start_quiz_mode stored a question sequence.
WebSessionStarted == app = "web" /\ quiz_questions # << >>

\* A CLI quiz loop is running or shows its results.
CliSessionRunning == app = "cli" /\ cli_pc \in {"answer", "continue", "results"}

\* The last step was an accepted web submit / is one in the step described.
WebSubmitAccepted(event) == event.op = "submit" /\ event.choice # NoSelection

\* C1: in every reachable state of a session, web or CLI,
\* 0 <= score <= answeredCount <= currentIndex + 1 <= length of the question
\* sequence (the CLI's loop variable i is currentIndex + 1).
SessionCountersOrdered ==
    /\ WebSessionStarted =>
           /\ 0 <= score
           /\ score <= answered_questions
           /\ answered_questions <= current_question_index + 1
           /\ current_question_index + 1 <= Len(quiz_questions)
    /\ (CliSessionRunning /\ cli_questions # << >>) =>
           /\ 0 <= cli_score
           /\ cli_score <= cli_attempted
           /\ cli_attempted <= cli_i
           /\ cli_i <= Len(cli_questions)

\* C2: in every reachable state of the web session, answered_questions is
\* the number of entries of quiz_answers.
AnsweredCountsAnswerRecords ==
    app = "web" => answered_questions = Cardinality(DOMAIN quiz_answers)

\* C3: a submit for a position that already has an answer record leaves the
\* score, the answer count and the answer records unchanged.
SecondSubmitRejected ==
    [][(/\ WebSubmitAccepted(last_event')
        /\ current_question_index \in DOMAIN quiz_answers)
          => UNCHANGED <<score, answered_questions, quiz_answers>>]_vars

\* C4: once a session is complete (the results are shown, after the last
\* question or after quit), a later submit changes neither the score, the
\* answer count nor the recorded answers; the CLI takes no answer then.
NoSubmitAfterComplete ==
    [][/\ (app = "web" /\ results_shown /\ last_event'.op = "submit")
             => UNCHANGED <<score, answered_questions, quiz_answers>>
       /\ (app = "cli" /\ cli_pc = "results")
             => last_event'.op # "cli_answer"]_vars

\* C5: an accepted submit of choice index c on question q records
\* is_correct = (c = q.correct_answer), adds 1 to the score exactly then, and
\* adds exactly 1 to the answer count.
GradedByChoiceIndex ==
    [][/\ WebSubmitAccepted(last_event') =>
              LET c == last_event'.choice
                  q == CurrentQuestion
                  right == (c = q.correct_answer)
              IN  /\ quiz_answers'[current_question_index].is_correct = right
                  /\ score' = score + (IF right THEN 1 ELSE 0)
                  /\ answered_questions' = answered_questions + 1
       /\ (last_event'.op = "cli_answer" /\ cli_attempted' # cli_attempted) =>
              LET c == last_event'.choice - 1
                  right == (c = CliQuestion.correct_answer)
              IN  /\ cli_score' = cli_score + (IF right THEN 1 ELSE 0)
                  /\ cli_attempted' = cli_attempted + 1]_vars

\* C6: a submit whose choice index is outside the question's choices, or
\* that carries no selection, leaves the score, the answer count, the index
\* and the answer records as they were.
InvalidChoiceChangesNothing ==
    [][/\ (/\ last_event'.op = "submit"
           /\ last_event'.choice \notin 0..(Len(CurrentQuestion.choices) - 1))
             => UNCHANGED <<score, answered_questions, current_question_index,
                            quiz_answers>>
       /\ (/\ last_event'.op = "cli_answer"
           /\ ~(/\ last_event'.name = "int"
                /\ last_event'.choice - 1 \in 0..(Len(CliQuestion.choices) - 1)))
             => UNCHANGED <<cli_score, cli_attempted, cli_i>>]_vars

\* C6 witness: the CLI asked again after a typed 5 on a question with fewer
\* choices, nothing answered yet.
InvalidChoiceTyped ==
    /\ app = "cli" /\ cli_pc = "answer"
    /\ last_event = Event("cli_answer", 5, "int")
    /\ Len(CliQuestion.choices) < 5
    /\ cli_attempted = 0

\* C7 as claimed: a submit changes no session's index.
SubmitKeepsIndex ==
    [][last_event'.op \in {"submit", "cli_answer"}
          => /\ current_question_index' = current_question_index
             /\ cli_i' = cli_i]_vars

\* C7 as amended: in the CLI an answer keeps the loop's position, which moves
\* on only at the continue prompt; in the web session an accepted submit on a
\* question that is not the last moves the index to the next question itself,
\* and any other submit leaves it.
SubmitAdvancesOnlyInWeb ==
    [][/\ last_event'.op = "cli_answer" => cli_i' = cli_i
       /\ (cli_pc # "menu" /\ cli_i' # cli_i)
             => last_event'.op \in {"cli_continue", "cli_enter"}
       /\ last_event'.op = "submit"
             => current_question_index' =
                    IF /\ last_event'.choice # NoSelection
                       /\ current_question_index + 1 < Len(quiz_questions)
                    THEN current_question_index + 1
                    ELSE current_question_index]_vars

\* C7 witness: the first answer of a web session was accepted and the form
\* shows the second question.
SubmitMovedToSecondQuestion ==
    /\ app = "web" /\ screen = "quiz" /\ ~results_shown
    /\ WebSubmitAccepted(last_event)
    /\ current_question_index = 1
    /\ answered_questions = 1

\* C8: a web session whose results follow the last submit, every question
\* answered correctly, has its index at the length of the question sequence.
AllCorrectEndsAtLength ==
    (/\ app = "web" /\ results_shown
     /\ WebSubmitAccepted(last_event)
     /\ score = Len(quiz_questions)
     /\ answered_questions = Len(quiz_questions))
        => current_question_index = Len(quiz_questions)

\* b holds the elements of a, each as often as a does.
IsPermutationOf(a, b) ==
    /\ Len(a) = Len(b)
    /\ \A k \in 1..Len(a) :
           Cardinality({j \in 1..Len(a) : a[j] = a[k]})
               = Cardinality({j \in 1..Len(b) : b[j] = a[k]})

\* The counters of a web session at their start values.
WebSessionFresh ==
    /\ screen = "quiz"
    /\ current_question_index = 0
    /\ score = 0
    /\ answered_questions = 0
    /\ quiz_answers = EmptyDict

\* The counters of a CLI loop at their start values.
CliSessionFresh ==
    /\ cli_pc = "answer"
    /\ cli_i = 1
    /\ cli_score = 0
    /\ cli_attempted = 0

\* The questions of the file listed under title whose topic is the title,
\* letter case ignored: the selection of the web's topic mode.
TopicSelection(title) ==
    SelectSeq(AvailableTopic(title).questions,
              LAMBDA q : Lower(q.topic) = Lower(title))

\* The typed line of the event names a listed topic of the CLI.
NamesCliTopic(event) ==
    event.name = "int" /\ event.choice \in 1..Len(QuizFiles)

\* C9: a start with a non-empty selection leaves the session with a
\* permutation of the selection and with index, score and answer count 0 and
\* no answer record, whatever the session state was before.
StartYieldsFreshPermutation ==
    [][/\ (last_event'.op = "start_full" /\ current_quiz.questions # << >>)
             => /\ IsPermutationOf(quiz_questions', current_quiz.questions)
                /\ WebSessionFresh'
       /\ (/\ last_event'.op = "start_topic"
           /\ TopicSelection(last_event'.name) # << >>)
             => /\ IsPermutationOf(quiz_questions',
                                   TopicSelection(last_event'.name))
                /\ WebSessionFresh'
       /\ (last_event'.op = "cli_start" /\ ~cli_current_quiz.is_none)
             => /\ IsPermutationOf(cli_questions', cli_current_quiz.questions)
                /\ CliSessionFresh'
       /\ (/\ last_event'.op = "cli_topic" /\ NamesCliTopic(last_event')
           /\ QuizFiles[last_event'.choice].questions # << >>)
             => /\ IsPermutationOf(cli_questions',
                                   QuizFiles[last_event'.choice].questions)
                /\ CliSessionFresh'
       /\ (last_event'.op = "cli_difficulty" /\ cli_pc' = "answer")
             => /\ \E k \in 1..Len(cli_current_quiz.questions) :
                       IsPermutationOf(
                           cli_questions',
                           SelectSeq(cli_current_quiz.questions,
                                     LAMBDA q :
                                         Lower(q.difficulty) =
                                         Lower(cli_current_quiz.questions[k]
                                                   .difficulty)))
                /\ CliSessionFresh']_vars

\* C9 witness: a full quiz of three questions was started and its first
\* question is the last one of the loaded files.
StartedShuffledFullQuiz ==
    /\ app = "web" /\ last_event.op = "start_full"
    /\ WebSessionFresh
    /\ Len(quiz_questions) = 3
    /\ quiz_questions[1] = S1

\* C10: a start whose selection holds no question leaves the session state
\* (question sequence, index, score, answer count, answer records, mode and
\* screen; the CLI's loop and score) unchanged.
EmptySelectionLeavesSession ==
    [][/\ (\/ last_event'.op = "start_full" /\ current_quiz.questions = << >>
           \/ /\ last_event'.op = "start_topic"
              /\ TopicSelection(last_event'.name) = << >>)
             => UNCHANGED <<quiz_questions, current_question_index, score,
                            answered_questions, quiz_answers, quiz_mode,
                            screen>>
       /\ (/\ last_event'.op = "cli_topic" /\ NamesCliTopic(last_event')
           /\ QuizFiles[last_event'.choice].questions = << >>)
             => UNCHANGED cli_vars]_vars

\* C10 witness: with an answered session behind it, the topic screen's
\* button of a title that none of its file's questions carries was pressed.
EmptyTopicRejected ==
    /\ app = "web" /\ screen = "topic_selection"
    /\ last_event = Event("start_topic", 0, "Vocabulary Quiz")
    /\ quiz_questions # << >>
    /\ answered_questions > 0

\* C11: a start in any mode leaves the question sequence of the loaded quiz
\* as it was: the web's complete quiz and the CLI's loops keep the sequence of
\* the quiz they start from, and the web's topic start stores the quiz of the
\* title's file with the questions in the order of the file.
StartKeepsLoadedSequence ==
    [][/\ last_event'.op = "start_full"
             => current_quiz'.questions = current_quiz.questions
       /\ (/\ last_event'.op = "start_topic"
           /\ AvailableTopic(last_event'.name).questions # << >>)
             => current_quiz'.questions =
                    AvailableTopic(last_event'.name).questions
       /\ last_event'.op \in {"cli_start", "cli_topic", "cli_difficulty"}
             => cli_current_quiz' = cli_current_quiz]_vars

\* C12: the restart of a complete web session gives the form over the same
\* questions in the same order, with index, score and answer count 0 and no
\* answer record.
RestartKeepsSequence ==
    [][last_event'.op = "restart"
          => /\ results_shown
             /\ quiz_questions' = quiz_questions
             /\ WebSessionFresh'
             /\ FormShown'
             /\ ~results_shown']_vars

\* C12 witness: a session over the two grammar questions, shuffled to the
\* reverse of the file's order, was restarted.
RestartedReversedSession ==
    /\ app = "web" /\ last_event.op = "restart"
    /\ quiz_questions = <<G2, G1>>
    /\ WebSessionFresh

\* C13: the accuracy of the web's quiz header, of the web's results page and
\* of the CLI's results is score / answered count when something was
\* answered and the no-data result otherwise, and no division of these pages
\* (accuracy, progress, per-topic and per-difficulty percentages) has a zero
\* divisor.
AccuracyNeverDividesByZero ==
    /\ (app = "web" /\ FormShown) =>
           LET accuracy == QuizScreenAccuracy(score, answered_questions)
           IN  /\ accuracy.ok
               /\ accuracy.value =
                      IF answered_questions > 0
                      THEN Ratio(score, answered_questions) ELSE Ratio(0, 1)
    /\ (app = "web" /\ results_shown) =>
           LET page == show_quiz_results(score, answered_questions,
                                         quiz_questions, quiz_answers)
           IN  /\ page.no_data = (answered_questions = 0)
               /\ page.accuracy.ok
               /\ ~page.no_data =>
                      page.accuracy.value = Ratio(score, answered_questions)
               /\ page.progress.ok
               /\ \A topic \in DOMAIN page.by_topic : page.by_topic[topic].ok
               /\ \A difficulty \in DOMAIN page.by_difficulty :
                      page.by_difficulty[difficulty].ok
    /\ (app = "cli" /\ cli_pc = "results") =>
           LET page == display_results(cli_score, cli_attempted)
           IN  /\ page.no_data = (cli_attempted = 0)
               /\ page.percentage.ok
               /\ ~page.no_data =>
                      page.percentage.value = Ratio(cli_score, cli_attempted)

\* C13 witness: a CLI quiz loop was left at its first prompt and shows its
\* results with nothing attempted.
ResultsWithNothingAttempted ==
    /\ app = "cli" /\ cli_pc = "results"
    /\ cli_attempted = 0
    /\ cli_questions # << >>
    /\ last_event.op = "cli_answer"

(***************************************************************************)
(* Properties of the loaders and of the loaded quiz                        *)
(***************************************************************************)

\* A record is a valid question: between two and six choices, and a correct
\* answer that indexes one of them.
ValidQuestion(q) ==
    /\ Len(q.choices) \in 2..6
    /\ q.correct_answer \in 0..(Len(q.choices) - 1)

AllValid(questions) ==
    \A k \in 1..Len(questions) : ValidQuestion(questions[k])

\* The last step was the direct call op of the manager.
ManagerCalled(op) == last_event = Event("manager_call", 0, op)

\* The file a topic name stands for exists / holds a record that is no valid
\* question.
TopicFileExists(topic) ==
    \E i \in FileIndexes : quizzes_dir[i].stem = Lower(topic)

TopicFileDamaged(topic) ==
    \E i \in FileIndexes :
        /\ quizzes_dir[i].stem = Lower(topic)
        /\ ~AllValid(quizzes_dir[i].questions)

\* The questions of the file of a topic, none for a topic without a file.
TopicFileQuestions(topic) ==
    IF TopicFileExists(topic)
    THEN quizzes_dir[CHOOSE i \in FileIndexes :
                        quizzes_dir[i].stem = Lower(topic)].questions
    ELSE << >>

\* C14: whatever was loaded, the quiz of the manager, the quiz of the CLI and
\* the questions of its loop hold valid questions only, and so does every
\* list or quiz a load call returned; a load call that names a file with an
\* invalid record raises.
LoadedQuestionsValid ==
    /\ AllValid(manager_current_quiz.questions)
    /\ AllValid(cli_current_quiz.questions)
    /\ AllValid(cli_questions)
    /\ (call_result.op \in {"load_questions_by_topic", "load_questions"}
           /\ call_result.outcome.ok)
          => AllValid(call_result.outcome.value)
    /\ (call_result.op \in {"load_quiz_from_file", "load_quiz_from_file_path"}
           /\ call_result.outcome.ok)
          => AllValid(call_result.outcome.value.questions)
    /\ (call_result.op \in {"load_questions_by_topic", "load_questions",
                             "load_quiz_from_file", "load_quiz_from_file_path"}
           /\ \E k \in 1..Len(call_result.args) :
                  TopicFileDamaged(call_result.args[k]))
          => ~call_result.outcome.ok

\* C14 witness: the CLI's load menu was asked for all topics of the directory
\* with the invalid records and loaded the questions of the two sound files.
LoadedAllButDamaged ==
    /\ app = "cli" /\ quizzes_dir = DamagedFiles
    /\ last_event = Event("cli_load", Len(DamagedFiles) + 1, "int")
    /\ cli_current_quiz.questions = <<G1, G2, S1>>

\* C15: a load_quiz_from_file call, by topics or by file path, that names a
\* missing file only, finds no question, or meets an invalid record raises
\* without a value, and a call that raises leaves the manager's current quiz
\* as it was.
FailedLoadKeepsCurrentQuiz ==
    [][/\ (/\ last_event'.name = "load_quiz_from_file"
           /\ \/ \E k \in 1..Len(call_result'.args) :
                     TopicFileDamaged(call_result'.args[k])
              \/ \A k \in 1..Len(call_result'.args) :
                     TopicFileQuestions(call_result'.args[k]) = << >>)
             => ~call_result'.outcome.ok
       /\ (/\ last_event'.name = "load_quiz_from_file_path"
           /\ \/ ~TopicFileExists(call_result'.args[1])
              \/ TopicFileDamaged(call_result'.args[1]))
             => ~call_result'.outcome.ok
       /\ (/\ last_event'.name \in {"load_quiz_from_file",
                                     "load_quiz_from_file_path"}
           /\ ~call_result'.outcome.ok)
             => /\ manager_current_quiz' = manager_current_quiz
                /\ call_result'.outcome.value = << >>]_vars

\* C15 witness: with the spelling quiz loaded, the load of a sound topic and
\* of the topic whose file holds a valid record before an invalid one raised.
FailedLoadAfterLoad ==
    /\ ManagerCalled("load_quiz_from_file")
    /\ call_result.args = <<"Grammar", "Short">>
    /\ ~call_result.outcome.ok
    /\ manager_current_quiz.questions = <<S1>>

RECURSIVE SumOfLengths(_)
\* The sum of the lengths of the lists.
SumOfLengths(lists) ==
    IF lists = << >> THEN 0 ELSE Len(Head(lists)) + SumOfLengths(Tail(lists))

RECURSIVE Appended(_, _)
\* The lists one after the other, from the n-th on.
Appended(lists, n) ==
    IF n > Len(lists) THEN << >> ELSE lists[n] \o Appended(lists, n + 1)

\* The question lists of the files of the topics, in the order of the topics.
TopicFileLists(topics) ==
    [k \in 1..Len(topics) |-> TopicFileQuestions(topics[k])]

\* C16: a load of several topics that succeeds gives the questions of the
\* topics' files, file after file in the order of the topics and each file
\* in its own order, questions of equal id included; total_questions of the
\* quiz is the sum of the files' counts and the length of that sequence.
MergeConcatenatesTopics ==
    /\ (ManagerCalled("load_quiz_from_file") /\ call_result.outcome.ok) =>
           LET quiz == call_result.outcome.value
               lists == TopicFileLists(call_result.args)
           IN  /\ quiz.questions = Appended(lists, 1)
               /\ quiz.total_questions = SumOfLengths(lists)
               /\ quiz.total_questions = Len(quiz.questions)
               /\ manager_current_quiz = quiz
    /\ (ManagerCalled("load_questions") /\ call_result.outcome.ok) =>
           call_result.outcome.value =
               Appended(TopicFileLists(call_result.args), 1)
    /\ app = "cli" =>
           cli_current_quiz.total_questions = Len(cli_current_quiz.questions)

\* C16 witness: spelling was loaded before grammar; the merged quiz holds
\* the question of id 1 of either file.
MergedSpellingBeforeGrammar ==
    /\ ManagerCalled("load_quiz_from_file")
    /\ call_result.args = <<"Spelling", "Grammar">>
    /\ manager_current_quiz.questions = <<S1, G1, G2>>
    /\ manager_current_quiz.total_questions = 3

RECURSIVE SumOfCounts(_, _)
\* The sum of the counts of a dict of counts, over the given keys.
SumOfCounts(counts, keys) ==
    IF keys = {} THEN 0
    ELSE LET key == CHOOSE k \in keys : TRUE
         IN  counts[key] + SumOfCounts(counts, keys \ {key})

\* C17: get_quiz_stats of a loaded quiz reports the length of the question
\* sequence as total_questions, and its counts by topic and its counts by
\* difficulty each sum to that total.
StatsCountsSumToTotal ==
    (ManagerCalled("get_quiz_stats") /\ ~manager_current_quiz.is_none) =>
        LET stats == call_result.outcome.value
        IN  /\ stats.total_questions = Len(manager_current_quiz.questions)
            /\ SumOfCounts(stats.topics, DOMAIN stats.topics)
                   = stats.total_questions
            /\ SumOfCounts(stats.difficulties, DOMAIN stats.difficulties)
                   = stats.total_questions

\* C17 witness: the stats of the quiz loaded from grammar.yaml, whose topics
\* and difficulties differ in letter case and whose metadata gives another
\* total than its list is long.
StatsOfGrammarFile ==
    /\ ManagerCalled("get_quiz_stats")
    /\ manager_current_quiz.questions = <<G1, G2>>
    /\ manager_current_quiz.total_questions = 5
    /\ DOMAIN call_result.outcome.value.topics = {"Grammar", "grammar"}

\* The strings of the model that differ in letter case only.
CaseVariants ==
    {{"Grammar", "grammar", "GRAMMAR"}, {"Spelling", "spelling"},
     {"easy", "Easy", "EASY"}}

\* Two strings are equal when letter case is ignored.
EqualIgnoringCase(a, b) ==
    a = b \/ \E variants \in CaseVariants : a \in variants /\ b \in variants

\* C18: get_questions_by_topic and get_questions_by_difficulty return the
\* questions of the quiz whose topic (difficulty) is the argument up to
\* letter case, in the order of the quiz, and leave the quiz as it is; the
\* result depends on the quiz and the argument only, so a second call gives
\* an equal result; a filter that matches nothing returns the empty list.
FiltersMatchIgnoringCase ==
    [][/\ last_event'.name = "get_questions_by_topic" =>
              LET topic == call_result'.args[1]
                  result == call_result'.outcome
              IN  /\ result.ok
                  /\ result.value =
                         SelectSeq(manager_current_quiz.questions,
                                   LAMBDA q : EqualIgnoringCase(q.topic, topic))
                  /\ manager_current_quiz' = manager_current_quiz
       /\ last_event'.name = "get_questions_by_difficulty" =>
              LET difficulty == call_result'.args[1]
                  result == call_result'.outcome
              IN  /\ result.ok
                  /\ result.value =
                         SelectSeq(manager_current_quiz.questions,
                                   LAMBDA q : EqualIgnoringCase(q.difficulty,
                                                                difficulty))
                  /\ manager_current_quiz' = manager_current_quiz]_vars

\* C18 witness: the topic filter was called in upper case on the merged quiz
\* and returned the two grammar questions, whose topics differ in case.
FilteredGrammarInUpperCase ==
    /\ ManagerCalled("get_questions_by_topic")
    /\ call_result.args = <<"GRAMMAR">>
    /\ manager_current_quiz.questions = <<S1, G1, G2>>
    /\ call_result.outcome.value = <<G1, G2>>

(***************************************************************************)
(* Properties of the explanation resolvers                                 *)
(***************************************************************************)

\* The step is a call of one of the two resolvers.
Resolves(event) == event.op = "resolve"

\* The text a question stores for exactly the language, "" when none.
StoredFor(question, language) ==
    IF language = "zh_TW" THEN question.explanation_zh_TW
    ELSE IF language = "zh_CN" THEN question.explanation_zh_CN
    ELSE ""

\* C19: a resolver asked for a language for which the question stores a
\* non-empty pre-translated text returns that text, whatever the other
\* fields hold, calls no translation and leaves the translator's caches.
PreTranslatedTextWins ==
    [][Resolves(last_event') =>
          LET question == call_result'.args[1]
              language == call_result'.args[2]
              resolved == call_result'.outcome.value
          IN  StoredFor(question, language) # "" =>
                  /\ resolved.text = StoredFor(question, language)
                  /\ ~resolved.auto_translated
                  /\ UNCHANGED <<translation_cache,
                                 translate_text_cache>>]_vars

\* C19 witness: with googletrans at hand, the translator was asked for
\* zh_CN on a question that holds all three texts, and returned the
\* Simplified one.
ReturnedStoredSimplified ==
    /\ googletrans_available
    /\ last_event = Event("resolve", 0, "get_translated_explanation")
    /\ call_result.args =
           <<Explained("English text", "Traditional text", "Simplified text"),
             "zh_CN">>
    /\ call_result.outcome.value.text = "Simplified text"

\* C20: a zh_TW request on a question without Traditional text returns its
\* Simplified text when it has one; a zh_CN request on a question without
\* Simplified text never returns the Traditional text the question has.
ChineseFallbackOneWay ==
    [][Resolves(last_event') =>
          LET question == call_result'.args[1]
              language == call_result'.args[2]
              resolved == call_result'.outcome.value
          IN  /\ (/\ language = "zh_TW"
                  /\ question.explanation_zh_TW = ""
                  /\ question.explanation_zh_CN # "")
                    => resolved.text = question.explanation_zh_CN
              /\ (/\ language = "zh_CN"
                  /\ question.explanation_zh_CN = ""
                  /\ question.explanation_zh_TW # "")
                    => resolved.text # question.explanation_zh_TW]_vars

\* C20 witness: Question.get_explanation was asked for zh_CN on a question
\* that holds an English and a Traditional text only, and returned the
\* English one.
SimplifiedRequestGotEnglish ==
    /\ last_event = Event("resolve", 0, "Question.get_explanation")
    /\ call_result.args =
           <<Explained("English text", "Traditional text", ""), "zh_CN">>
    /\ call_result.outcome.value.text = "English text"

\* A question that holds a default-language explanation and no other.
OnlyDefaultExplanation(question) ==
    /\ question.explanation # ""
    /\ question.explanation_zh_TW = ""
    /\ question.explanation_zh_CN = ""

\* The translation service was called in the step and raised.
TranslateRaised(event, result) ==
    /\ Resolves(event)
    /\ result.args # << >>
    /\ \/ ~result.outcome.ok
       \/ result.outcome.value.translate_raised

\* C21: when the call of the translation service raises while an explanation
\* is resolved for a question that holds only the default-language text, the
\* resolver returns that text unchanged and raises nothing.
FailedTranslationReturnsDefault ==
    [][(/\ TranslateRaised(last_event', call_result')
        /\ OnlyDefaultExplanation(call_result'.args[1]))
          => /\ call_result'.outcome.ok
             /\ call_result'.outcome.value.text =
                    call_result'.args[1].explanation]_vars

\* C21 witness: with googletrans at hand the translator was asked for zh_TW
\* on a question with an English text only, the service raised, and the
\* English text came back.
FailedTraditionalGotEnglish ==
    /\ googletrans_available
    /\ last_event = Event("resolve", 0, "get_translated_explanation")
    /\ call_result.args = <<Explained("English text", "", ""), "zh_TW">>
    /\ call_result.outcome.ok
    /\ call_result.outcome.value.translate_raised
    /\ call_result.outcome.value.text = "English text"

\* The step is a direct call of translate_text.
Translates(event) == event.name = "translate_text"

\* The language codes translate_text translates to.
SupportedLanguages == {"zh_TW", "zh_CN", "zh"}

\* C22: for every text and every target language outside zh_TW, zh_CN and
\* zh, translate_text returns the text it was given, whatever was translated
\* before the call.
UnsupportedLanguageReturnsText ==
    [][Translates(last_event') =>
          LET text == call_result'.args[1]
              target_language == call_result'.args[2]
          IN  target_language \notin SupportedLanguages =>
                  /\ call_result'.outcome.ok
                  /\ call_result'.outcome.value = text]_vars

\* C23: a call translate_text(text, lang) that returns an entry of one of
\* its caches returns an entry that a call with the same text and the same
\* language stored.
CacheKeyedByPair ==
    [][Translates(last_event') =>
          LET text == call_result'.args[1]
              target_language == call_result'.args[2]
              arguments == <<text, target_language>>
              cache_key == CacheKey(text, target_language)
              same_pair(origin) ==
                  /\ origin.text = text
                  /\ origin.target_language = target_language
          IN  IF arguments \in DOMAIN translate_text_cache
              THEN same_pair(cache_origin.lru[arguments])
              ELSE (/\ googletrans_available
                    /\ text # ""
                    /\ cache_key \in DOMAIN translation_cache)
                      => same_pair(cache_origin.dict[cache_key])]_vars

\* C24: when several sessions resolve explanations, a resolution for one
\* session returns no cache entry that a resolution for another session
\* stored: every session has a translator with caches of its own.
CachesPerUser ==
    [][last_event'.name = "get_translated_explanation" =>
          LET user == last_event'.choice
              text == call_result'.args[1].explanation
              language == call_result'.args[2]
              arguments == <<text, language>>
              cache_key == CacheKey(text, language)
          IN  call_result'.outcome.value.auto_translated =>
                  IF arguments \in DOMAIN translate_text_cache
                  THEN cache_origin.lru[arguments].user = user
                  ELSE (/\ text # ""
                        /\ cache_key \in DOMAIN translation_cache)
                          => cache_origin.dict[cache_key].user = user]_vars

(***************************************************************************)
(* Properties of the breakdowns and of the difficulty levels               *)
(***************************************************************************)

\* The sum of the totals of a breakdown.
RECURSIVE SumOfTotals(_, _)
SumOfTotals(stats, keys) ==
    IF keys = {} THEN 0
    ELSE LET key == CHOOSE k \in keys : TRUE
         IN  stats[key].total + SumOfTotals(stats, keys \ {key})

\* C25: in the results page of a web session the totals of the breakdown by
\* difficulty sum to the number of questions of the session: a question of
\* a difficulty other than easy, medium and hard is counted in a bucket of
\* its own, not left out.
DifficultyBucketsCoverSession ==
    (app = "web" /\ results_shown /\ answered_questions > 0) =>
        LET by_difficulty == DifficultyStats(quiz_questions, quiz_answers)
        IN  SumOfTotals(by_difficulty, DOMAIN by_difficulty)
                = Len(quiz_questions)

\* C26: in every state of a started web session current_question_index is
\* below the number of the session's questions: a submit of the last
\* question leaves it at length - 1, and the branch of show_quiz_screen for
\* an index at the length is never taken.
IndexBelowLength ==
    WebSessionStarted => current_question_index < Len(quiz_questions)

\* C26 witness: the last question of a session of three was submitted with
\* an answer, the summary is on the page and the index is still at 2.
LastSubmitKeptIndex ==
    /\ WebSessionStarted
    /\ WebSubmitAccepted(last_event)
    /\ results_shown
    /\ Len(quiz_questions) = 3
    /\ current_question_index = 2
    /\ DOMAIN quiz_answers = {0, 1, 2}

(***************************************************************************)
(* The two resolvers compared                                              *)
(***************************************************************************)

\* The languages Question.get_explanation documents.
DocumentedLanguages == {"en", "zh_TW", "zh_CN"}

\* C27: without googletrans the two resolvers agree: for every question and
\* every language of en, zh_TW and zh_CN a call of either returns the text
\* the other returns for the same question and language.
ResolversAgreeWithoutTranslation ==
    [][(/\ Resolves(last_event')
        /\ ~googletrans_available
        /\ call_result'.args[2] \in DocumentedLanguages)
          => LET question == call_result'.args[1]
                 language == call_result'.args[2]
                 text == call_result'.outcome.value.text
             IN  IF last_event'.name = "Question.get_explanation"
                 THEN \A service \in TranslateOutcomes(question.explanation,
                                                       LangMap(language)) :
                          text = Translator_get_explanation(
                                     question, language, service,
                                     translation_cache,
                                     translate_text_cache).result
                 ELSE text = Question_get_explanation(question, language)]_vars

\* C27 witness: without googletrans the translator was asked for zh_TW on a
\* question with an English and a Simplified text and returned the
\* Simplified one, as Question.get_explanation does.
TranslatorFellBackLikeQuestion ==
    /\ ~googletrans_available
    /\ last_event = Event("resolve", 0, "get_translated_explanation")
    /\ call_result.args =
           <<Explained("English text", "", "Simplified text"), "zh_TW">>
    /\ call_result.outcome.value.text = "Simplified text"
    /\ Question_get_explanation(call_result.args[1], "zh_TW")
           = "Simplified text"

(***************************************************************************)
(* Properties of the CLI's statistics                                      *)
(***************************************************************************)

\* C28: in the CLI, whenever a quiz of QuizCLI is loaded, the manager's
\* current quiz is that quiz, and view_quiz_stats then obtains statistics
\* that carry the title and the number of questions of the loaded quiz, not
\* the manager's result for no loaded quiz.
CliStatsOfLoadedQuiz ==
    /\ (app = "cli" /\ ~cli_current_quiz.is_none) =>
           manager_current_quiz = cli_current_quiz
    /\ (app = "cli" /\ ~cli_current_quiz.is_none
           /\ last_event.op = "cli_stats") =>
           /\ call_result.outcome.ok
           /\ call_result.outcome.value.title = cli_current_quiz.title
           /\ call_result.outcome.value.total_questions =
                  Len(cli_current_quiz.questions)

\* The number of questions of the quiz that the menu of practice_by_difficulty
\* prints next to a level: those whose difficulty is the level's string.
ListedCount(quiz, difficulty) ==
    Cardinality({k \in 1..Len(quiz.questions) :
                    quiz.questions[k].difficulty = difficulty})

\* C29: the count get_quiz_stats reports for a difficulty key is the number
\* of questions get_questions_by_difficulty returns for that key, and the
\* practice the CLI starts for a listed level has as many questions as the
\* menu printed for it, also when questions spell a level in different
\* letter case.
DifficultyCountsMatchFilter ==
    [][/\ (last_event' = Event("manager_call", 0, "get_quiz_stats")
              /\ ~manager_current_quiz'.is_none) =>
              LET difficulties == call_result'.outcome.value.difficulties
              IN  \A d \in DOMAIN difficulties :
                      difficulties[d] =
                          Len(get_questions_by_difficulty(
                                  manager_current_quiz', d))
       /\ (last_event'.op = "cli_difficulty"
              /\ cli_pc = "menu" /\ cli_pc' = "answer") =>
              \E d \in {cli_current_quiz.questions[k].difficulty :
                            k \in 1..Len(cli_current_quiz.questions)} :
                  /\ IsPermutationOf(cli_questions',
                         get_questions_by_difficulty(cli_current_quiz, d))
                  /\ Len(cli_questions') = ListedCount(cli_current_quiz, d)
      ]_vars

(***************************************************************************)
(* Properties of the difficulty screen                                     *)
(***************************************************************************)

\* The topic files hold a question of difficulty easy, medium or hard.
SomeLevelQuestion ==
    \E i \in FileIndexes : \E k \in 1..Len(quizzes_dir[i].questions) :
        quizzes_dir[i].questions[k].difficulty \in DifficultyLevels

\* C30: on the difficulty screen of the web session, when the topic files
\* hold a question of difficulty easy, medium or hard, a session of mode
\* difficulty can be started: for some level the screen offers a step to
\* the quiz screen with quiz_mode "difficulty" and questions that all have
\* that level.
DifficultySessionCanStart ==
    (app = "web" /\ screen = "difficulty_selection" /\ SomeLevelQuestion) =>
        \E level \in DifficultyLevels :
            ENABLED (/\ StartDifficultyQuiz(level)
                     /\ screen' = "quiz"
                     /\ quiz_mode' = "difficulty"
                     /\ \A k \in 1..Len(quiz_questions') :
                            Lower(quiz_questions'[k].difficulty) = level)

====
